---- MODULE Spec2Model ----
(***************************************************************************)
(* A model of the SourcePawn JIT compile driver, src/vm/jit.cpp:           *)
(* CompilerBase::CompileFromThunk (the thunk patcher), CompilerBase::      *)
(* Compile, CompilerBase::emit and the helpers emit() calls.               *)
(*                                                                         *)
(* Threads run CompileFromThunk one source statement at a time.  The       *)
(* watchdog is a thread of its own that may declare a timeout at any       *)
(* moment.  Collaborators whose code is not in src/ (watchdog, method      *)
(* table, validator, p-code reader, opcode visitors, assembler, linker)    *)
(* are modelled from the specification and draw their results from small   *)
(* sets.                                                                   *)
(***************************************************************************)
EXTENDS Integers, Sequences, FiniteSets, TLC

VARIABLES
  pc,          \* pc[t]: the statement thread t executes next
  offs,        \* offs[t]: argument pcode_offs of t's call
  site,        \* site[t]: argument pc of t's call, the call site to patch
  addrp,       \* addrp[t]: the contents of *addrp of t's call
  err,         \* err[t]: the local int err of CompileFromThunk
  fn,          \* fn[t]: the local CompiledFunction* fn of CompileFromThunk
  ret,         \* ret[t]: the status t's call returned
  cc,          \* cc[t]: the Compiler object of t's call (the local cc of Compile)
  jit,         \* jit[o]: MethodInfo::jit() of the method at p-code offset o
  verify,      \* verify[o]: what MethodInfo::Validate() returns for that method
  patch,       \* patch[s]: the target call site s calls
  timedout,    \* the watchdog has declared a timeout nobody has processed yet
  nextAddr,    \* the address the linker hands to the next code chunk
  calls,       \* the number of CompileFromThunk calls made so far
  nCompile,    \* nCompile[o]: how many times Compile() was entered for method o
  nSet,        \* nSet[o]: how many times setCompiledFunction() was called on o
  reported,    \* the error last given to Environment::ReportError
  helper,      \* helper[t]: the statement of InvokeReportTimeout t executes next
  frames,      \* the native frames JitFrameIterator walks, the deepest first
  iter,        \* the frame the iterator of find_entry_fp stands on
  fp,          \* the local void* fp of find_entry_fp
  walk,        \* the statement find_entry_fp executes next
  entry_fp     \* what find_entry_fp returned

(* The state of find_entry_fp. *)
walkVars == << frames, iter, fp, walk, entry_fp >>

vars == << pc, offs, site, addrp, err, fn, ret, cc, jit, verify, patch,
           timedout, nextAddr, calls, nCompile, nSet, reported, helper,
           walkVars >>

-----------------------------------------------------------------------------
(* Bounds of the model. *)

MaxCalls == 3
MaxSites == 2
MaxFrames == 4

(* Error codes, by name. *)
SP_ERROR_NONE == "SP_ERROR_NONE"
SP_ERROR_INVALID_ADDRESS == "SP_ERROR_INVALID_ADDRESS"
SP_ERROR_INVALID_INSTRUCTION == "SP_ERROR_INVALID_INSTRUCTION"
SP_ERROR_OUT_OF_MEMORY == "SP_ERROR_OUT_OF_MEMORY"
SP_ERROR_TIMEOUT == "SP_ERROR_TIMEOUT"
SP_ERROR_DIVIDE_BY_ZERO == "SP_ERROR_DIVIDE_BY_ZERO"
SP_ERROR_STACKLOW == "SP_ERROR_STACKLOW"
SP_ERROR_STACKMIN == "SP_ERROR_STACKMIN"
SP_ERROR_ARRAY_BOUNDS == "SP_ERROR_ARRAY_BOUNDS"
SP_ERROR_MEMACCESS == "SP_ERROR_MEMACCESS"
SP_ERROR_HEAPLOW == "SP_ERROR_HEAPLOW"
SP_ERROR_HEAPMIN == "SP_ERROR_HEAPMIN"
SP_ERROR_INTEGER_OVERFLOW == "SP_ERROR_INTEGER_OVERFLOW"
SP_ERROR_INVALID_NATIVE == "SP_ERROR_INVALID_NATIVE"
SP_ERROR_ARRAY_TOO_BIG == "SP_ERROR_ARRAY_TOO_BIG"

(* sizeof(cell_t) *)
CellSize == 4

Threads == {1, 2}
Sites == 1 .. MaxSites

(* The code image, one entry per cell.  A JUMP is followed by its operand,  *)
(* the byte offset of its target.  Three functions: the first, with two    *)
(* backward jumps and two checked opcodes, is ended by the PROC of the     *)
(* next; the second, with a forward jump, by an ENDPROC; the third by the  *)
(* end of the code.                                                        *)
Op(name) == [op |-> name, arg |-> 0]
Operand(v) == [op |-> "(operand)", arg |-> v]

Code ==
  << Op("PROC"), Op("SDIV"), Op("LOAD"), Op("JUMP"), Operand(1 * CellSize),
     Op("JUMP"), Operand(2 * CellSize), Op("RETN"),
     Op("PROC"), Op("JUMP"), Operand(12 * CellSize), Op("GENARRAY"), Op("RETN"),
     Op("ENDPROC"),
     Op("PROC"), Op("RETN") >>

CodeLength == Len(Code) * CellSize

(* The methods of the runtime, by p-code byte offset: the cells with a PROC. *)
MethodOffsets ==
  { (i - 1) * CellSize : i \in { j \in 1 .. Len(Code) : Code[j].op = "PROC" } }

(* The offsets a call site may name: every method, and one offset that is  *)
(* no function start.                                                      *)
CallOffsets == MethodOffsets \cup { 2 * CellSize }

-----------------------------------------------------------------------------
(* Addresses. *)

NullAddr == [kind |-> "null", a |-> 0]
Patcher == [kind |-> "patcher", a |-> 0]
Unwritten == [kind |-> "unwritten", a |-> 0]
CodeAddr(n) == [kind |-> "code", a |-> n]

(* A CompiledFunction; NoFn is the null pointer. *)
NoFn == [code |-> NullAddr, pcode_offs |-> 0, edges |-> << >>, cipmap |-> << >>]

GetEntryAddress(f) == f.code

-----------------------------------------------------------------------------
(* The compiler object.  visited records the cips handed to a visitor, in  *)
(* order; ool_log the out-of-line paths emitted, with the position each    *)
(* label was bound to.                                                     *)

NoCompiler ==
  [ live |-> FALSE, error_ |-> SP_ERROR_NONE, pcode_start_ |-> 0, cip |-> 0,
    op_cip_ |-> 0, masm_pc |-> 0, jump_map_ |-> << >>, visited |-> << >>,
    ool_paths_ |-> << >>, ool_i |-> 0, ool_bound |-> {}, ool_log |-> << >>,
    backward_jumps_ |-> << >>, bj_i |-> 0, cip_map_ |-> << >>,
    used |-> {}, thrown |-> {}, handlers |-> FALSE,
    linked |-> FALSE, code |-> NullAddr, fun |-> NoFn ]

(* An assembler label: unbound, collecting the sites that refer to it, or  *)
(* bound to an offset.  binds counts the times it was bound.               *)
Label == [bound |-> FALSE, offset |-> 0, binds |-> 0, sites |-> {}]

bind(l, at) == [l EXCEPT !.bound = TRUE, !.offset = at, !.binds = @ + 1]

(* The size of the jump map, in labels. *)
JumpMapSize == CodeLength \div CellSize + 1

(* CompilerBase::CompilerBase: error_ = SP_ERROR_NONE, the reader at        *)
(* pcode_start_, a jump map of fresh labels indexed from 0.                *)
NewCompiler(o) ==
  [ NoCompiler EXCEPT !.live = TRUE, !.pcode_start_ = o, !.cip = o \div CellSize,
                      !.jump_map_ = [i \in 0 .. JumpMapSize - 1 |-> Label] ]

reportError(c, e) == [c EXCEPT !.error_ = e]

(* An assembler overflow, which may strike any emission: the error field   *)
(* is set.                                                                 *)
Overflow(c, o) == IF o THEN reportError(c, SP_ERROR_OUT_OF_MEMORY) ELSE c

Emit(c, n) == [c EXCEPT !.masm_pc = @ + n]

emitCipMapping(c, cip) ==
  [c EXCEPT !.cip_map_ = Append(@, [pcoffs |-> c.masm_pc, cip |-> cip])]

(* The p-code reader. *)
more(c) == c.cip < Len(Code)
peekOpcode(c) == Code[c.cip + 1].op
OpSize(op) == IF op = "JUMP" THEN 2 ELSE 1

(* reader.begin(): step over the PROC the function starts with. *)
begin(c) == [c EXCEPT !.cip = @ + 1]

(* The opcode visitors, when they succeed. c.cip is the opcode's own cell. *)
(* A checked opcode registers its out-of-line error path; a jump refers to *)
(* the jump-map label of its target, and a backward jump leaves a record   *)
(* with the native pc of the branch.                                       *)
visitOp(c) ==
  LET op == Code[c.cip + 1].op
      next == [c EXCEPT !.cip = @ + OpSize(op)]
  IN  CASE op = "RETN" ->
             emitCipMapping(Emit(next, 1), c.op_cip_)
        [] op = "SDIV" ->
             [Emit(next, 2) EXCEPT !.ool_paths_ =
                Append(@, [kind |-> "ErrorPath", cip |-> c.op_cip_,
                           err |-> SP_ERROR_DIVIDE_BY_ZERO])]
        [] op = "LOAD" ->
             [Emit(next, 2) EXCEPT !.ool_paths_ =
                Append(@, [kind |-> "OutOfBoundsErrorPath", cip |-> c.op_cip_,
                           err |-> SP_ERROR_ARRAY_BOUNDS])]
        [] op = "GENARRAY" ->
             [Emit(next, 2) EXCEPT !.ool_paths_ =
                Append(@, [kind |-> "ErrorPath", cip |-> c.op_cip_,
                           err |-> SP_ERROR_ARRAY_TOO_BIG])]
        [] op = "JUMP" ->
             LET target == Code[c.cip + 2].arg \div CellSize
                 j == [Emit(next, 1) EXCEPT
                         !.jump_map_[target].sites = @ \cup {c.masm_pc}]
             IN  IF target <= c.cip
                   THEN [j EXCEPT !.backward_jumps_ =
                           Append(@, [pc |-> c.masm_pc, cip |-> c.op_cip_,
                                      timeout_offset |-> 0])]
                   ELSE j
        [] OTHER -> Emit(next, 1)

(* What a visit of one opcode may come to. *)
VisitOutcomes == { "ok", "overflow", "reported", "failed" }

(* reader.visitNext(): the compiler after the visit, and what it returned. *)
visitNext(c, how) ==
  CASE how = "ok" -> [c |-> visitOp(c), ok |-> TRUE]
    [] how = "overflow" -> [c |-> Overflow(visitOp(c), TRUE), ok |-> TRUE]
    [] how = "reported" ->
         [c |-> reportError(c, SP_ERROR_INVALID_INSTRUCTION), ok |-> FALSE]
    [] OTHER -> [c |-> c, ok |-> FALSE]

(* emitErrorPath with the cip mapping made before the call is emitted. *)
emitErrorPathMapsFirst(c, path) ==
  LET mapped == emitCipMapping(c, path.cip)
  IN  [Emit(mapped, 2) EXCEPT !.used = @ \cup {path.err}]

(* CompilerBase::emitErrorPath *)
emitErrorPath(c, path) ==
  LET called == Emit(c, 2)
      marked == IF path.err = SP_ERROR_NONE
                  THEN [called EXCEPT !.used = @ \cup {"report_error_"}]
                  ELSE [called EXCEPT !.used = @ \cup {path.err}]
  IN  emitCipMapping(marked, path.cip)

(* Compiler::emitOutOfBoundsErrorPath *)
emitOutOfBoundsErrorPath(c, path) ==
  emitCipMapping([Emit(c, 2) EXCEPT !.used = @ \cup {SP_ERROR_ARRAY_BOUNDS}],
                 path.cip)

(* ErrorPath::emit and OutOfBoundsErrorPath::emit: both return true. *)
PathEmit(c, path) ==
  [ c |-> IF path.kind = "ErrorPath" THEN emitErrorPath(c, path)
                                     ELSE emitOutOfBoundsErrorPath(c, path),
    ok |-> TRUE ]

(* CompilerBase::emitThrowPathIfNeeded *)
emitThrowPathIfNeeded(c, e) ==
  IF e \notin c.used THEN c
  ELSE [Emit(c, 2) EXCEPT !.thrown = @ \cup {e},
                          !.used = @ \cup {"report_error_"}]

RECURSIVE emitThrowPaths(_, _)
emitThrowPaths(c, es) ==
  IF es = << >> THEN c
  ELSE emitThrowPaths(emitThrowPathIfNeeded(c, Head(es)), Tail(es))

(* The nine codes emit() asks for, in its order. *)
ThrowPathOrder ==
  << SP_ERROR_DIVIDE_BY_ZERO, SP_ERROR_STACKLOW, SP_ERROR_STACKMIN,
     SP_ERROR_ARRAY_BOUNDS, SP_ERROR_MEMACCESS, SP_ERROR_HEAPLOW,
     SP_ERROR_HEAPMIN, SP_ERROR_INTEGER_OVERFLOW, SP_ERROR_INVALID_NATIVE >>

(* The LoopEdge array with each displacement taken the other way round. *)
LoopEdgesSwapped(c) ==
  [ i \in 1 .. Len(c.backward_jumps_) |->
      [ offset |-> c.backward_jumps_[i].pc,
        disp32 |-> c.backward_jumps_[i].pc - c.backward_jumps_[i].timeout_offset ] ]

(* The LoopEdge array emit() builds from the backward-jump records. *)
LoopEdges(c) ==
  [ i \in 1 .. Len(c.backward_jumps_) |->
      [ offset |-> c.backward_jumps_[i].pc,
        disp32 |-> c.backward_jumps_[i].timeout_offset - c.backward_jumps_[i].pc ] ]

(* new CompiledFunction(code, pcode_start_, edges, cipmap) *)
NewCompiledFunction(c) ==
  [ code |-> c.code, pcode_offs |-> c.pcode_start_, edges |-> LoopEdges(c),
    cipmap |-> c.cip_map_ ]

-----------------------------------------------------------------------------
(* The native frames.  Frame 1 is the deepest; the stack grows downwards,  *)
(* so a frame's address is below that of the frame it was called from, and *)
(* its prev_fp is the frame pointer of that frame.  The prev_fp of the     *)
(* outermost frame is the frame pointer of the host.                       *)

nullptr == 0

FrameTypes == { "Entry", "Scripted", "Exit" }

FrameAddr(i) == i

FrameChain(types) ==
  [ i \in 1 .. Len(types) |->
      [ frame_type |-> types[i], prev_fp |-> FrameAddr(i + 1) ] ]

(* The chains find_entry_fp is called on: it runs in a helper that emitted *)
(* code has called through an exit frame, so the deepest frame is an Exit  *)
(* frame.                                                                  *)
FrameChains ==
  { FrameChain(types) :
      types \in { ts \in UNION { [1 .. n -> FrameTypes] : n \in 1 .. MaxFrames } :
                    ts[1] = "Exit" } }

-----------------------------------------------------------------------------
(* The collaborators of the thunk patcher. *)

(* PluginRuntime::AcquireMethod: the method at that offset, if there is one. *)
AcquireMethod(o) == o \in MethodOffsets

(* What Validate() may return: success, or one of the verifier's errors. *)
ValidateResults ==
  { SP_ERROR_NONE, SP_ERROR_INVALID_INSTRUCTION, SP_ERROR_INVALID_ADDRESS }

-----------------------------------------------------------------------------
InitThunk ==
  /\ pc = [t \in Threads |-> "idle"]
  /\ offs = [t \in Threads |-> 0]
  /\ site = [t \in Threads |-> 1]
  /\ addrp = [t \in Threads |-> Unwritten]
  /\ err = [t \in Threads |-> SP_ERROR_NONE]
  /\ fn = [t \in Threads |-> NoFn]
  /\ ret = [t \in Threads |-> SP_ERROR_NONE]
  /\ cc = [t \in Threads |-> NoCompiler]
  /\ jit = [o \in MethodOffsets |-> NoFn]
  /\ verify \in [MethodOffsets -> ValidateResults]
  /\ patch = [s \in Sites |-> Patcher]
  /\ timedout = FALSE
  /\ nextAddr = 1
  /\ calls = 0
  /\ nCompile = [o \in MethodOffsets |-> 0]
  /\ nSet = [o \in MethodOffsets |-> 0]
  /\ reported = SP_ERROR_NONE
  /\ helper = [t \in Threads |-> "none"]

(* Nobody walks the frames. *)
NoWalk ==
  /\ frames = << >>
  /\ iter = 0
  /\ fp = nullptr
  /\ walk = "idle"
  /\ entry_fp = nullptr

Init == InitThunk /\ NoWalk

-----------------------------------------------------------------------------
(* The watchdog. *)

(* The watchdog thread declares a timeout. *)
WatchdogTimeout ==
  /\ ~timedout
  /\ timedout' = TRUE
  /\ UNCHANGED << pc, offs, site, addrp, err, fn, ret, cc, jit, verify, patch,
                  nextAddr, calls, nCompile, nSet >>
  /\ UNCHANGED << reported, helper, walkVars >>

(* WatchdogTimer::HandleInterrupt: false when a timeout is pending, which  *)
(* it then takes as received.                                              *)
HandleInterrupt == ~timedout

(* WatchdogTimer::NotifyTimeoutReceived: the pending timeout is received.  *)
NotifyTimeoutReceived == timedout' = FALSE

-----------------------------------------------------------------------------
(* The helpers emitted code tail-calls. *)

(* The errors the checked opcodes of the code raise when a script runs.    *)
RuntimeErrors == { SP_ERROR_DIVIDE_BY_ZERO, SP_ERROR_ARRAY_BOUNDS }

(* Thread t runs a script: it is not inside CompileFromThunk, nor inside   *)
(* InvokeReportTimeout.                                                    *)
RunsScript(t) == pc[t] \in {"idle", "done"} /\ helper[t] = "none"

(* Environment::get()->ReportError(err) *)
ReportError(e) == reported' = e

(* CompilerBase::InvokeReportError, called from a throw path of the code   *)
(* t runs.                                                                 *)
InvokeReportError(t, e) ==
  /\ RunsScript(t)
  /\ ReportError(e)
  /\ UNCHANGED << pc, offs, site, addrp, err, fn, ret, cc, jit, verify, patch,
                  timedout, nextAddr, calls, nCompile, nSet >>
  /\ UNCHANGED << helper, walkVars >>

(* CompilerBase::InvokeReportTimeout, line 290: the watchdog is notified.  *)
(* The guards stand for the caller, a timeout thunk, which the code t runs *)
(* reaches once the watchdog has declared a timeout.                       *)
InvokeReportTimeoutNotify(t) ==
  /\ RunsScript(t)
  /\ timedout
  /\ NotifyTimeoutReceived
  /\ helper' = [helper EXCEPT ![t] = "InvokeReportError"]
  /\ UNCHANGED << pc, offs, site, addrp, err, fn, ret, cc, jit, verify, patch,
                  nextAddr, calls, nCompile, nSet >>
  /\ UNCHANGED << reported, walkVars >>

(* CompilerBase::InvokeReportTimeout, line 291: the timeout is reported,   *)
(* whatever the watchdog has declared since.                               *)
InvokeReportTimeoutReport(t) ==
  /\ helper[t] = "InvokeReportError"
  /\ ReportError(SP_ERROR_TIMEOUT)
  /\ helper' = [helper EXCEPT ![t] = "none"]
  /\ UNCHANGED << pc, offs, site, addrp, err, fn, ret, cc, jit, verify, patch,
                  timedout, nextAddr, calls, nCompile, nSet >>
  /\ UNCHANGED walkVars

(* CompilerBase::InvokeReportTimeout, statement by statement. *)
InvokeReportTimeout(t) ==
  InvokeReportTimeoutNotify(t) \/ InvokeReportTimeoutReport(t)

-----------------------------------------------------------------------------
(* CompilerBase::CompileFromThunk, statement by statement. *)

(* An unpatched call site calls the patcher. *)
Call(t) ==
  /\ RunsScript(t)
  /\ calls < MaxCalls
  /\ \E o \in CallOffsets, s \in Sites :
       /\ patch[s] = Patcher
       /\ offs' = [offs EXCEPT ![t] = o]
       /\ site' = [site EXCEPT ![t] = s]
  /\ pc' = [pc EXCEPT ![t] = "HandleInterrupt"]
  /\ addrp' = [addrp EXCEPT ![t] = Unwritten]
  /\ err' = [err EXCEPT ![t] = SP_ERROR_NONE]
  /\ fn' = [fn EXCEPT ![t] = NoFn]
  /\ ret' = [ret EXCEPT ![t] = SP_ERROR_NONE]
  /\ cc' = [cc EXCEPT ![t] = NoCompiler]
  /\ calls' = calls + 1
  /\ UNCHANGED << jit, verify, patch, timedout, nextAddr, nCompile, nSet >>
  /\ UNCHANGED << reported, helper, walkVars >>

(* The test of line 228, with the watchdog's answer ignored. *)
RefusesToCompileNever == FALSE

(* if (!Environment::get()->watchdog()->HandleInterrupt()) *)
RefusesToCompile == ~HandleInterrupt

(* if (!watchdog()->HandleInterrupt()) return SP_ERROR_TIMEOUT; *)
ThunkEntry(t) ==
  /\ pc[t] = "HandleInterrupt"
  /\ IF ~RefusesToCompile
       THEN /\ pc' = [pc EXCEPT ![t] = "AcquireMethod"]
            /\ UNCHANGED << ret, timedout >>
       ELSE /\ pc' = [pc EXCEPT ![t] = "done"]
            /\ ret' = [ret EXCEPT ![t] = SP_ERROR_TIMEOUT]
            /\ timedout' = FALSE
  /\ UNCHANGED << offs, site, addrp, err, fn, cc, jit, verify, patch,
                  nextAddr, calls, nCompile, nSet >>
  /\ UNCHANGED << reported, helper, walkVars >>

(* method = AcquireMethod(pcode_offs); if (!method) return INVALID_ADDRESS; *)
ThunkAcquire(t) ==
  /\ pc[t] = "AcquireMethod"
  /\ IF AcquireMethod(offs[t])
       THEN /\ pc' = [pc EXCEPT ![t] = "Validate"]
            /\ UNCHANGED ret
       ELSE /\ pc' = [pc EXCEPT ![t] = "done"]
            /\ ret' = [ret EXCEPT ![t] = SP_ERROR_INVALID_ADDRESS]
  /\ UNCHANGED << offs, site, addrp, err, fn, cc, jit, verify, patch,
                  timedout, nextAddr, calls, nCompile, nSet >>
  /\ UNCHANGED << reported, helper, walkVars >>

(* The test of line 236, with the validator's status ignored. *)
ValidateFailedNever(e) == FALSE

(* if (err != SP_ERROR_NONE) *)
ValidateFailed(e) == e # SP_ERROR_NONE

(* int err = method->Validate(); if (err != SP_ERROR_NONE) return err; *)
ThunkValidate(t) ==
  /\ pc[t] = "Validate"
  /\ err' = [err EXCEPT ![t] = verify[offs[t]]]
  /\ IF ValidateFailed(err'[t])
       THEN /\ pc' = [pc EXCEPT ![t] = "done"]
            /\ ret' = [ret EXCEPT ![t] = err'[t]]
       ELSE /\ pc' = [pc EXCEPT ![t] = "jit"]
            /\ UNCHANGED ret
  /\ UNCHANGED << offs, site, addrp, fn, cc, jit, verify, patch,
                  timedout, nextAddr, calls, nCompile, nSet >>
  /\ UNCHANGED << reported, helper, walkVars >>

(* The test of line 240, compiling whether or not there is a function. *)
NotCompiledAlways(f) == TRUE

(* if (!fn) *)
NotCompiled(f) == f = NoFn

(* fn = method->jit(); if (!fn) fn = Compile(cx, method, &err): Compile    *)
(* is entered and constructs its Compiler.                                 *)
ThunkJit(t) ==
  /\ pc[t] = "jit"
  /\ fn' = [fn EXCEPT ![t] = jit[offs[t]]]
  /\ IF NotCompiled(fn'[t])
       THEN /\ pc' = [pc EXCEPT ![t] = "emitPrologue"]
            /\ cc' = [cc EXCEPT ![t] = NewCompiler(offs[t])]
            /\ nCompile' = [nCompile EXCEPT ![offs[t]] = @ + 1]
       ELSE /\ pc' = [pc EXCEPT ![t] = "store"]
            /\ UNCHANGED << cc, nCompile >>
  /\ UNCHANGED << offs, site, addrp, err, ret, jit, verify, patch,
                  timedout, nextAddr, calls, nSet >>
  /\ UNCHANGED << reported, helper, walkVars >>

(* setCompiledFunction left out. *)
setCompiledFunctionDropped(j, o, f) == j

(* method->setCompiledFunction(fun) *)
setCompiledFunction(j, o, f) == [j EXCEPT ![o] = f]

(* The rest of Compile once emit() has returned, and the caller's check of *)
(* what it returned.                                                       *)
CompileReturn(t) ==
  /\ pc[t] = "CompileReturn"
  /\ IF cc[t].fun = NoFn
       THEN /\ err' = [err EXCEPT ![t] = cc[t].error_]
            /\ ret' = [ret EXCEPT ![t] = err'[t]]
            /\ pc' = [pc EXCEPT ![t] = "done"]
            /\ UNCHANGED << fn, jit, nSet >>
       ELSE /\ jit' = setCompiledFunction(jit, offs[t], cc[t].fun)
            /\ nSet' = [nSet EXCEPT ![offs[t]] = @ + 1]
            /\ fn' = [fn EXCEPT ![t] = cc[t].fun]
            /\ pc' = [pc EXCEPT ![t] = "store"]
            /\ UNCHANGED << err, ret >>
  /\ UNCHANGED << offs, site, addrp, cc, verify, patch, timedout, nextAddr,
                  calls, nCompile >>
  /\ UNCHANGED << reported, helper, walkVars >>

(* Lines 253 and 256 in the other order: the call site is rewritten first. *)
ThunkStorePatchesFirst(t) ==
  /\ pc[t] = "store"
  /\ patch' = [patch EXCEPT ![site[t]] = GetEntryAddress(fn[t])]
  /\ pc' = [pc EXCEPT ![t] = "patch"]
  /\ UNCHANGED << offs, site, addrp, err, fn, ret, cc, jit, verify, timedout,
                  nextAddr, calls, nCompile, nSet >>
  /\ UNCHANGED << reported, helper, walkVars >>

(* *addrp = fn->GetEntryAddress(); *)
ThunkStore(t) ==
  /\ pc[t] = "store"
  /\ addrp' = [addrp EXCEPT ![t] = GetEntryAddress(fn[t])]
  /\ pc' = [pc EXCEPT ![t] = "patch"]
  /\ UNCHANGED << offs, site, err, fn, ret, cc, jit, verify, patch, timedout,
                  nextAddr, calls, nCompile, nSet >>
  /\ UNCHANGED << reported, helper, walkVars >>

(* PatchCallThunk(pc, fn->GetEntryAddress()); return SP_ERROR_NONE; *)
ThunkPatch(t) ==
  /\ pc[t] = "patch"
  /\ patch' = [patch EXCEPT ![site[t]] = GetEntryAddress(fn[t])]
  /\ ret' = [ret EXCEPT ![t] = SP_ERROR_NONE]
  /\ pc' = [pc EXCEPT ![t] = "done"]
  /\ UNCHANGED << offs, site, addrp, err, fn, cc, jit, verify, timedout,
                  nextAddr, calls, nCompile, nSet >>
  /\ UNCHANGED << reported, helper, walkVars >>

-----------------------------------------------------------------------------
(* CompilerBase::emit, phase by phase. *)

(* emit() returns nullptr: control is back in Compile. *)
EmitFails(t, c) ==
  /\ cc' = [cc EXCEPT ![t] = c]
  /\ pc' = [pc EXCEPT ![t] = "CompileReturn"]

(* emit() goes on with the statement at position next. *)
EmitGoes(t, c, next) ==
  /\ cc' = [cc EXCEPT ![t] = c]
  /\ pc' = [pc EXCEPT ![t] = next]

(* emitPrologue(); reader.begin(); *)
EmitPrologue(t) ==
  /\ pc[t] = "emitPrologue"
  /\ \E o \in BOOLEAN :
       EmitGoes(t, begin(Overflow(Emit(cc[t], 1), o)), "decode")
  /\ UNCHANGED << offs, site, addrp, err, fn, ret, jit, verify, patch,
                  timedout, nextAddr, calls, nCompile, nSet >>
  /\ UNCHANGED << reported, helper, walkVars >>

(* The boundary test of line 96 with only PROC looked for. *)
AtFunctionBoundaryProcOnly(c) == peekOpcode(c) = "PROC"

(* if (reader.peekOpcode() == OP_PROC || reader.peekOpcode() == OP_ENDPROC) *)
AtFunctionBoundary(c) == peekOpcode(c) \in {"PROC", "ENDPROC"}

(* The index of line 105 taken from the function's start, not the segment's. *)
JumpMapIndexFromStart(c) == c.cip - c.pcode_start_ \div CellSize

(* The index of line 105 one cell too far. *)
JumpMapIndexOffByOne(c) == c.cip + 1

(* The index of line 105 taken in bytes, not in cells. *)
JumpMapIndexInBytes(c) == c.cip * CellSize

(* reader.cip() - codeseg *)
JumpMapIndex(c) == c.cip

(* One round of the decode loop: the loop test, the PROC/ENDPROC check,    *)
(* the bind of the jump-map label, op_cip_, and the visit.                 *)
EmitDecode(t) ==
  /\ pc[t] = "decode"
  /\ LET c == cc[t]
     IN  IF ~more(c) \/ AtFunctionBoundary(c)
           THEN EmitGoes(t, c, "ool")
           ELSE \E how \in VisitOutcomes :
                  LET b == [c EXCEPT !.jump_map_[JumpMapIndex(c)] = bind(@, c.masm_pc),
                                     !.op_cip_ = c.cip,
                                     !.visited = Append(@, c.cip)]
                      r == visitNext(b, how)
                  IN  IF ~r.ok \/ r.c.error_ # SP_ERROR_NONE
                        THEN EmitFails(t, r.c)
                        ELSE EmitGoes(t, r.c, "decode")
  /\ UNCHANGED << offs, site, addrp, err, fn, ret, jit, verify, patch,
                  timedout, nextAddr, calls, nCompile, nSet >>
  /\ UNCHANGED << reported, helper, walkVars >>

(* The loop test of line 114 stopping one path short. *)
MoreOolPathsButLast(c) == c.ool_i + 1 < Len(c.ool_paths_)

(* i < ool_paths_.length() *)
MoreOolPaths(c) == c.ool_i < Len(c.ool_paths_)

(* One round of the loop over ool_paths_: bind the path's label, emit it. *)
EmitOutOfLine(t) ==
  /\ pc[t] = "ool"
  /\ LET c == cc[t]
     IN  IF MoreOolPaths(c)
           THEN \E o \in BOOLEAN :
                  LET b == [c EXCEPT !.ool_bound = @ \cup {c.ool_i + 1},
                                     !.ool_log = Append(@, [path |-> c.ool_i + 1,
                                                            at |-> c.masm_pc]),
                                     !.ool_i = @ + 1]
                      r == PathEmit(b, c.ool_paths_[c.ool_i + 1])
                  IN  IF ~r.ok
                        THEN EmitFails(t, r.c)
                        ELSE EmitGoes(t, Overflow(r.c, o), "ool")
           ELSE EmitGoes(t, c, "thunks")
  /\ UNCHANGED << offs, site, addrp, err, fn, ret, jit, verify, patch,
                  timedout, nextAddr, calls, nCompile, nSet >>
  /\ UNCHANGED << reported, helper, walkVars >>

(* The offset of line 125 taken after the call is emitted. *)
ThunkOffsetAfterCall(c) == c.masm_pc + 1

(* jump.timeout_offset = masm.pc(); *)
ThunkOffset(c) == c.masm_pc

(* One round of the loop over backward_jumps_: the timeout thunk. *)
EmitThunk(t) ==
  /\ pc[t] = "thunks"
  /\ LET c == cc[t]
     IN  IF c.bj_i < Len(c.backward_jumps_)
           THEN \E o \in BOOLEAN :
                  LET i == c.bj_i + 1
                      at == [c EXCEPT !.backward_jumps_[i].timeout_offset = ThunkOffset(c),
                                      !.bj_i = i]
                      called == [Emit(at, 1) EXCEPT !.used = @ \cup {"throw_timeout_"}]
                  IN  EmitGoes(t, Overflow(emitCipMapping(called, c.backward_jumps_[i].cip), o),
                               "thunks")
           ELSE EmitGoes(t, c, "throwpaths")
  /\ UNCHANGED << offs, site, addrp, err, fn, ret, jit, verify, patch,
                  timedout, nextAddr, calls, nCompile, nSet >>
  /\ UNCHANGED << reported, helper, walkVars >>

(* The nine emitThrowPathIfNeeded calls and emitErrorHandlers(). *)
EmitTail(t) ==
  /\ pc[t] = "throwpaths"
  /\ \E o \in BOOLEAN :
       LET c == emitThrowPaths(cc[t], ThrowPathOrder)
           h == [Emit(c, 1) EXCEPT !.handlers = TRUE]
       IN  EmitGoes(t, Overflow(h, o), "link")
  /\ UNCHANGED << offs, site, addrp, err, fn, ret, jit, verify, patch,
                  timedout, nextAddr, calls, nCompile, nSet >>
  /\ UNCHANGED << reported, helper, walkVars >>

(* The test of line 145 left out. *)
ErrorBeforeLinkIgnored(c) == FALSE

(* if (error_) return nullptr; *)
ErrorBeforeLink(c) == c.error_ # SP_ERROR_NONE

(* if (error_) return nullptr; LinkCode; the loop-edge and cip-map arrays; *)
(* new CompiledFunction.                                                   *)
EmitLink(t) ==
  /\ pc[t] = "link"
  /\ LET c == cc[t]
     IN  IF ErrorBeforeLink(c)
           THEN EmitFails(t, c) /\ UNCHANGED nextAddr
           ELSE \E linked \in BOOLEAN :
                  IF ~linked
                    THEN /\ EmitFails(t, reportError(c, SP_ERROR_OUT_OF_MEMORY))
                         /\ UNCHANGED nextAddr
                    ELSE LET l == [c EXCEPT !.linked = TRUE,
                                            !.code = CodeAddr(nextAddr)]
                         IN  /\ EmitFails(t, [l EXCEPT !.fun = NewCompiledFunction(l)])
                             /\ nextAddr' = nextAddr + 1
  /\ UNCHANGED << offs, site, addrp, err, fn, ret, jit, verify, patch,
                  timedout, calls, nCompile, nSet >>
  /\ UNCHANGED << reported, helper, walkVars >>

-----------------------------------------------------------------------------
Step(t) ==
  \/ Call(t)
  \/ ThunkEntry(t)
  \/ ThunkAcquire(t)
  \/ ThunkValidate(t)
  \/ ThunkJit(t)
  \/ EmitPrologue(t)
  \/ EmitDecode(t)
  \/ EmitOutOfLine(t)
  \/ EmitThunk(t)
  \/ EmitTail(t)
  \/ EmitLink(t)
  \/ CompileReturn(t)
  \/ ThunkStore(t)
  \/ ThunkPatch(t)
  \/ InvokeReportTimeout(t)
  \/ \E e \in RuntimeErrors : InvokeReportError(t, e)

-----------------------------------------------------------------------------
(* CompilerBase::find_entry_fp, statement by statement. *)

thunkVars == << pc, offs, site, addrp, err, fn, ret, cc, jit, verify, patch,
                timedout, nextAddr, calls, nCompile, nSet >>

(* iter.done() *)
done == iter > Len(frames)

(* The test of line 269 left out: the walk never stops at a frame. *)
IsEntryFrameNever(frame) == FALSE

(* frame->frame_type == JitFrameType::Entry *)
IsEntryFrame(frame) == frame.frame_type = "Entry"

(* void* fp = nullptr; JitFrameIterator iter(Environment::get()); *)
FindEntryFpBegin ==
  /\ walk = "find_entry_fp"
  /\ fp' = nullptr
  /\ iter' = 1
  /\ walk' = "loop"
  /\ UNCHANGED << frames, entry_fp >>
  /\ UNCHANGED << thunkVars, reported, helper >>

(* One round of the loop: !iter.done(), the test for the entry frame,      *)
(* fp = frame->prev_fp, iter.next().                                       *)
FindEntryFpLoop ==
  /\ walk = "loop"
  /\ IF done \/ IsEntryFrame(frames[iter])
       THEN walk' = "assert" /\ UNCHANGED << fp, iter >>
       ELSE /\ fp' = frames[iter].prev_fp
            /\ iter' = iter + 1
            /\ UNCHANGED walk
  /\ UNCHANGED << frames, entry_fp >>
  /\ UNCHANGED << thunkVars, reported, helper >>

(* assert(fp); return fp;  A build with assertions stops at a null fp, a   *)
(* build without them returns it.                                          *)
FindEntryFpReturn ==
  /\ walk = "assert"
  /\ \E asserts \in BOOLEAN :
       IF fp = nullptr /\ asserts
         THEN walk' = "aborted" /\ UNCHANGED entry_fp
         ELSE walk' = "returned" /\ entry_fp' = fp
  /\ UNCHANGED << frames, iter, fp >>
  /\ UNCHANGED << thunkVars, reported, helper >>

(* find_entry_fp is called on a chain of frames; no thunk is patched.      *)
InitFrames ==
  /\ InitThunk
  /\ verify = [o \in MethodOffsets |-> SP_ERROR_NONE]
  /\ frames \in FrameChains
  /\ iter = 0
  /\ fp = nullptr
  /\ walk = "find_entry_fp"
  /\ entry_fp = nullptr

NextFrames == FindEntryFpBegin \/ FindEntryFpLoop \/ FindEntryFpReturn

SpecFrames == InitFrames /\ [][NextFrames]_vars

(* One script thread, and the watchdog. *)
Next == WatchdogTimeout \/ Step(1)

Spec == Init /\ [][Next]_vars

(* Two threads that both run scripts, and the watchdog. *)
NextThreads == WatchdogTimeout \/ \E t \in Threads : Step(t)

(* With two threads the validator's verdicts are one case: the first      *)
(* method invalid, the others valid.                                       *)
InitThreads ==
  /\ Init
  /\ verify = [o \in MethodOffsets |->
                IF o = 0 THEN SP_ERROR_INVALID_INSTRUCTION ELSE SP_ERROR_NONE]

SpecThreads == InitThreads /\ [][NextThreads]_vars

-----------------------------------------------------------------------------
(* Properties of the thunk patcher and of Compile. *)

(* Thread t is inside Compile. *)
InCompile(t) ==
  pc[t] \in {"emitPrologue", "decode", "ool", "thunks", "throwpaths", "link",
             "CompileReturn"}

(* t's call has returned. *)
Returned(t) == pc[t] = "done"

(* The Compile of t's call has yielded no function. *)
CompileFailed(t) == Returned(t) /\ cc[t].live /\ cc[t].fun = NoFn

(* t's call found the function stored in *addrp and patched into its site. *)
Patched(t) ==
  /\ AcquireMethod(offs[t])
  /\ jit[offs[t]] # NoFn
  /\ addrp[t] = GetEntryAddress(jit[offs[t]])
  /\ patch[site[t]] = GetEntryAddress(jit[offs[t]])

(* C1: a call returns SP_ERROR_NONE exactly when the method has a compiled *)
(* function whose entry is in *addrp and in the call site; and when Compile *)
(* yields no function, the call returns a nonzero status with *addrp and   *)
(* the call site untouched.                                                *)
C1_SuccessIffPatched ==
  \A t \in Threads :
    Returned(t) =>
      /\ (ret[t] = SP_ERROR_NONE) <=> Patched(t)
      /\ CompileFailed(t) =>
           /\ ret[t] # SP_ERROR_NONE
           /\ addrp[t] = Unwritten
           /\ patch[site[t]] = Patcher

(* C2: when HandleInterrupt() returns false at entry, the call's next step *)
(* is its return of SP_ERROR_TIMEOUT, and that step leaves the methods,    *)
(* *addrp, the call sites and the compiler alone.                          *)
C2_TimeoutOnly ==
  [][ \A t \in Threads :
        (pc[t] = "HandleInterrupt" /\ ~HandleInterrupt /\ pc'[t] # pc[t]) =>
          /\ pc'[t] = "done"
          /\ ret'[t] = SP_ERROR_TIMEOUT
          /\ addrp'[t] = Unwritten
          /\ fn'[t] = NoFn
          /\ ~cc'[t].live
          /\ UNCHANGED << jit, patch, nCompile, nSet >> ]_vars

(* A call of a method that could have been compiled returned the timeout. *)
C2_Witness ==
  \E t \in Threads :
    /\ Returned(t)
    /\ ret[t] = SP_ERROR_TIMEOUT
    /\ AcquireMethod(offs[t])
    /\ verify[offs[t]] = SP_ERROR_NONE
    /\ jit[offs[t]] = NoFn

(* C3: whatever the interleaving of the calls, no two threads are inside   *)
(* Compile for the same method, and setCompiledFunction is called at most  *)
(* once on a method.                                                       *)
C3_OneCompilePerMethod ==
  \A o \in MethodOffsets :
    /\ Cardinality({ t \in Threads : InCompile(t) /\ offs[t] = o }) <= 1
    /\ nSet[o] <= 1

(* C4: no step that enters Compile from CompileFromThunk is taken while a  *)
(* timeout the watchdog has declared is still unprocessed.                 *)
C4_NoCompileWhilePending ==
  [][ \A t \in Threads :
        (pc[t] = "jit" /\ pc'[t] = "emitPrologue") => ~timedout ]_vars

(* C5: once a method has a compiled function, no later step enters Compile *)
(* for it or changes its reference, and every store to *addrp and every    *)
(* patch of a call for it writes the entry of that one function.           *)
C5_Idempotent ==
  [][ \A o \in MethodOffsets :
        jit[o] # NoFn =>
          /\ jit'[o] = jit[o]
          /\ nCompile'[o] = nCompile[o]
          /\ \A t \in Threads :
               offs[t] = o =>
                 /\ (pc[t] = "store" /\ pc'[t] # pc[t]) =>
                      addrp'[t] = GetEntryAddress(jit[o])
                 /\ (pc[t] = "patch" /\ pc'[t] # pc[t]) =>
                      patch'[site[t]] = GetEntryAddress(jit[o]) ]_vars

(* A later call of a compiled method has succeeded without compiling. *)
C5_Witness ==
  \E t \in Threads :
    /\ Returned(t)
    /\ ret[t] = SP_ERROR_NONE
    /\ ~cc[t].live
    /\ nCompile[offs[t]] = 1
    /\ Patched(t)
    /\ \E s \in Sites : s # site[t] /\ patch[s] = patch[site[t]]

(* C6: a call site is only ever rewritten by a call whose *addrp already   *)
(* holds an entry address, and to that same address; a call that returns  *)
(* from its patch returns success with the same address in both.           *)
C6_StoreBeforePatch ==
  [][ /\ \A s \in Sites :
           patch'[s] # patch[s] =>
             \E t \in Threads :
               /\ site[t] = s
               /\ addrp[t].kind = "code"
               /\ patch'[s] = addrp[t]
      /\ \A t \in Threads :
           (pc[t] = "patch" /\ pc'[t] = "done") =>
             /\ ret'[t] = SP_ERROR_NONE
             /\ addrp'[t].kind = "code"
             /\ patch'[site[t]] = addrp'[t] ]_vars

(* A call has stored the entry address and not yet patched its site. *)
C6_Witness ==
  \E t \in Threads :
    /\ pc[t] = "patch"
    /\ addrp[t].kind = "code"
    /\ patch[site[t]] = Patcher

(* The method of t's call cannot be acquired or does not validate. *)
BadMethod(t) ==
  ~AcquireMethod(offs[t]) \/ verify[offs[t]] # SP_ERROR_NONE

(* C7: a call for a method that cannot be acquired or does not validate    *)
(* never gets past Validate, never constructs a compiler, writes *addrp or *)
(* patches its site; past the entry check it returns                       *)
(* SP_ERROR_INVALID_ADDRESS or the validator's status; and no method that  *)
(* fails validation is ever compiled.                                      *)
C7_BadMethodRejected ==
  /\ \A t \in Threads :
       (pc[t] # "idle" /\ BadMethod(t)) =>
         /\ pc[t] \in {"HandleInterrupt", "AcquireMethod", "Validate", "done"}
         /\ addrp[t] = Unwritten
         /\ fn[t] = NoFn
         /\ ~cc[t].live
         /\ patch[site[t]] = Patcher
         /\ (Returned(t) /\ ret[t] # SP_ERROR_TIMEOUT) =>
              ret[t] = IF AcquireMethod(offs[t]) THEN verify[offs[t]]
                                                 ELSE SP_ERROR_INVALID_ADDRESS
  /\ \A o \in MethodOffsets :
       verify[o] # SP_ERROR_NONE => (nCompile[o] = 0 /\ jit[o] = NoFn)

(* A call has returned the validator's error. *)
C7_Witness ==
  \E t \in Threads :
    /\ Returned(t)
    /\ AcquireMethod(offs[t])
    /\ verify[offs[t]] # SP_ERROR_NONE
    /\ ret[t] = verify[offs[t]]

(* C8: whenever Compile has returned no function, the status it stored in  *)
(* *err is not SP_ERROR_NONE.                                              *)
C8_FailureHasErrorCode ==
  \A t \in Threads : CompileFailed(t) => err[t] # SP_ERROR_NONE

(* C9: once emit() has returned a function, the compiler's error field is  *)
(* SP_ERROR_NONE, and once Compile has returned it the method's reference  *)
(* is that function.                                                       *)
C9_SuccessSetsMethod ==
  \A t \in Threads :
    (cc[t].live /\ cc[t].fun # NoFn) =>
      /\ cc[t].error_ = SP_ERROR_NONE
      /\ pc[t] \in {"store", "patch", "done"} =>
           (jit[offs[t]] = cc[t].fun /\ fn[t] = cc[t].fun)

(* Compile has just returned a function. *)
C9_Witness ==
  \E t \in Threads :
    /\ pc[t] = "store"
    /\ cc[t].live
    /\ cc[t].fun # NoFn
    /\ nSet[offs[t]] = 1

(* C10: a compiler whose error field is nonzero has linked no code and     *)
(* made no function, its method has no compiled function, and from then on *)
(* the error field stays nonzero and no step changes any method.           *)
C10_ErrorMeansNoFunction ==
  [][ \A t \in Threads :
        /\ (cc'[t].live /\ cc'[t].error_ # SP_ERROR_NONE) =>
             /\ ~cc'[t].linked
             /\ cc'[t].fun = NoFn
             /\ fn'[t] = NoFn
             /\ jit'[offs'[t]] = NoFn
        /\ (cc[t].live /\ cc[t].error_ # SP_ERROR_NONE /\ cc'[t].live) =>
             /\ cc'[t].error_ # SP_ERROR_NONE
             /\ jit' = jit ]_vars

(* The error field was set before the check that precedes the link, after  *)
(* the whole body, the out-of-line paths and the tail were emitted.        *)
C10_Witness ==
  \E t \in Threads :
    /\ pc[t] = "link"
    /\ cc[t].error_ # SP_ERROR_NONE
    /\ cc[t].handlers
    /\ Len(cc[t].cip_map_) > 0

-----------------------------------------------------------------------------
(* Properties of emit(). *)

(* The cell of a function's first instruction, after its PROC. *)
FirstCip(o) == o \div CellSize + 1

(* The cell where the function starting at byte offset o ends: the first   *)
(* PROC or ENDPROC after its entry, or the end of the code.                *)
FunctionEnd(o) ==
  LET Ends(k) == k = Len(Code) \/ Code[k + 1].op \in {"PROC", "ENDPROC"}
  IN  CHOOSE k \in FirstCip(o) .. Len(Code) :
        Ends(k) /\ \A m \in FirstCip(o) .. k - 1 : ~Ends(m)

(* The decode loop of t's compiler is over. *)
DecodeDone(t) ==
  /\ pc[t] \in {"ool", "thunks", "throwpaths", "link"}
  /\ cc[t].error_ = SP_ERROR_NONE

(* C11: the decode loop stops at the first PROC after the function's entry *)
(* and at an ENDPROC: the reader never passes that cell, and no cell at or *)
(* after it is handed to a visitor or has its jump-map label bound.        *)
C11_StopsAtBoundary ==
  \A t \in Threads :
    cc[t].live =>
      LET c == cc[t]
          end == FunctionEnd(c.pcode_start_)
      IN  /\ c.cip <= end
          /\ \A i \in DOMAIN c.visited : c.visited[i] < end
          /\ \A j \in DOMAIN c.jump_map_ : c.jump_map_[j].bound => j < end
          /\ DecodeDone(t) => c.cip = end

(* The loop has stopped at an ENDPROC with code left behind it, after      *)
(* visiting the function's instructions.                                   *)
C11_Witness ==
  \E t \in Threads :
    /\ pc[t] = "ool"
    /\ more(cc[t])
    /\ peekOpcode(cc[t]) = "ENDPROC"
    /\ Len(cc[t].visited) > 0

(* t's step hands one more cip to a visitor. *)
Visits(t) == cc'[t].live /\ cc[t].live /\ Len(cc'[t].visited) = Len(cc[t].visited) + 1

(* C12: a step of the decode loop that visits a cip binds that cip's       *)
(* jump-map label, once, to the assembler position from before the visit,  *)
(* and binds no other label; so each visited cip's label is bound once, at *)
(* a position no later than that of any cip visited after it and than the  *)
(* assembler's.                                                            *)
C12_BoundOnceBeforeVisit ==
  [][ \A t \in Threads :
        /\ Visits(t) =>
             LET cip == cc'[t].visited[Len(cc'[t].visited)]
             IN  /\ cip = cc[t].cip
                 /\ ~cc[t].jump_map_[cip].bound
                 /\ cc'[t].jump_map_[cip].bound
                 /\ cc'[t].jump_map_[cip].binds = 1
                 /\ cc'[t].jump_map_[cip].offset = cc[t].masm_pc
                 /\ \A j \in DOMAIN cc[t].jump_map_ \ {cip} :
                      /\ cc'[t].jump_map_[j].bound = cc[t].jump_map_[j].bound
                      /\ cc'[t].jump_map_[j].offset = cc[t].jump_map_[j].offset
        /\ cc'[t].live =>
             LET c == cc'[t]
             IN  /\ \A i \in DOMAIN c.visited :
                      /\ c.jump_map_[c.visited[i]].binds = 1
                      /\ c.jump_map_[c.visited[i]].offset <= c.masm_pc
                 /\ \A i, k \in DOMAIN c.visited :
                      i < k => c.jump_map_[c.visited[i]].offset
                                 <= c.jump_map_[c.visited[k]].offset
                 /\ \A j \in DOMAIN c.jump_map_ :
                      c.jump_map_[j].bound =>
                        \E i \in DOMAIN c.visited : c.visited[i] = j ]_vars

(* Two cips of a function that does not start the code were visited, and  *)
(* the label of the second is bound at a later position than the first's.  *)
C12_Witness ==
  \E t \in Threads :
    LET c == cc[t]
    IN  /\ c.live
        /\ c.pcode_start_ > 0
        /\ Len(c.visited) >= 2
        /\ c.jump_map_[c.visited[1]].bound
        /\ c.jump_map_[c.visited[2]].offset > c.jump_map_[c.visited[1]].offset

(* The entries of a cip map are in strictly increasing order of native pc. *)
StrictlyMonotonic(map) ==
  \A i \in 1 .. Len(map) - 1 : map[i].pcoffs < map[i + 1].pcoffs

(* C13: the map a compiler accumulates is strictly monotonic in native pc   *)
(* and never ahead of the assembler, through the decode loop, the          *)
(* out-of-line paths and the thunks; the cip map of a compiled function is *)
(* that accumulated map, entry for entry, and strictly monotonic.          *)
C13_CipMapMonotonic ==
  /\ \A t \in Threads :
       cc[t].live =>
         /\ StrictlyMonotonic(cc[t].cip_map_)
         /\ \A i \in DOMAIN cc[t].cip_map_ :
              cc[t].cip_map_[i].pcoffs <= cc[t].masm_pc
         /\ cc[t].fun # NoFn => cc[t].fun.cipmap = cc[t].cip_map_
  /\ \A o \in MethodOffsets :
       jit[o] # NoFn => StrictlyMonotonic(jit[o].cipmap)

(* A compiled function whose map has entries from the decode loop, from    *)
(* two out-of-line paths and from two thunks.                              *)
C13_Witness ==
  \E o \in MethodOffsets :
    /\ jit[o] # NoFn
    /\ Len(jit[o].cipmap) >= 5
    /\ Len(jit[o].edges) = 2

(* C14: the loop-edge array of a function just compiled has one entry per  *)
(* backward-jump record, in order: the record's branch pc, and its         *)
(* timeout_offset minus that pc.                                           *)
C14_LoopEdgesFromRecords ==
  \A t \in Threads :
    (cc[t].live /\ cc[t].fun # NoFn) =>
      LET edges == cc[t].fun.edges
          jumps == cc[t].backward_jumps_
      IN  /\ Len(edges) = Len(jumps)
          /\ cc[t].bj_i = Len(jumps)
          /\ \A i \in 1 .. Len(jumps) :
               /\ edges[i].offset = jumps[i].pc
               /\ edges[i].disp32 = jumps[i].timeout_offset - jumps[i].pc

(* Compile is about to return a function with two loop edges of different  *)
(* branches.                                                               *)
C14_Witness ==
  \E t \in Threads :
    /\ pc[t] = "CompileReturn"
    /\ cc[t].fun # NoFn
    /\ Len(cc[t].fun.edges) = 2
    /\ cc[t].fun.edges[1].offset # cc[t].fun.edges[2].offset
    /\ cc[t].fun.edges[1].disp32 # 0

(* The slots of throw_error_code_ a call may name: every code but none.    *)
ThrowSlots ==
  { SP_ERROR_INVALID_ADDRESS, SP_ERROR_INVALID_INSTRUCTION,
    SP_ERROR_OUT_OF_MEMORY, SP_ERROR_TIMEOUT, SP_ERROR_DIVIDE_BY_ZERO,
    SP_ERROR_STACKLOW, SP_ERROR_STACKMIN, SP_ERROR_ARRAY_BOUNDS,
    SP_ERROR_MEMACCESS, SP_ERROR_HEAPLOW, SP_ERROR_HEAPMIN,
    SP_ERROR_INTEGER_OVERFLOW, SP_ERROR_INVALID_NATIVE,
    SP_ERROR_ARRAY_TOO_BIG }

(* C15: once the tail of the code is emitted, and so at link time, the     *)
(* throw path of an error code is bound and emitted exactly when an        *)
(* emitted site has called its label, for every error code.                *)
C15_ThrowPathIffUsed ==
  \A t \in Threads :
    (cc[t].live /\ cc[t].handlers) =>
      \A e \in ThrowSlots : (e \in cc[t].thrown) <=> (e \in cc[t].used)

-----------------------------------------------------------------------------
(* Properties of find_entry_fp. *)

(* The chain has an Entry frame. *)
HasEntry == \E k \in DOMAIN frames : frames[k].frame_type = "Entry"

(* The innermost Entry frame of the chain. *)
InnermostEntry ==
  CHOOSE k \in DOMAIN frames :
    /\ frames[k].frame_type = "Entry"
    /\ \A m \in 1 .. k - 1 : frames[m].frame_type # "Entry"

-----------------------------------------------------------------------------
(* Properties of the tail of emit(). *)

(* The highest position a jump-map label of c is bound to: the start of    *)
(* the last opcode of the main body.                                       *)
LastOpcodeAt(c) ==
  LET at == { c.jump_map_[j].offset : j \in { k \in DOMAIN c.jump_map_ : c.jump_map_[k].bound } }
  IN  IF at = {} THEN 0 ELSE CHOOSE a \in at : \A b \in at : b <= a

(* t's compiler has emitted something of the tail: a thunk, a throw path   *)
(* or the error handlers.                                                  *)
TailBegun(t) == cc[t].bj_i > 0 \/ cc[t].thrown # {} \/ cc[t].handlers

(* C17: a step of the loop over the out-of-line paths leaves the registry  *)
(* as it is and, if it emits, binds the label of the next path in          *)
(* registration order at the assembler's position and emits its body       *)
(* there; the paths emitted so far are the first ones registered, each     *)
(* once, all bound after the main body; nothing of the tail is emitted     *)
(* before the last of them, and past the loop every registered path has    *)
(* been emitted.                                                           *)
C17_OutOfLineInOrder ==
  [][ \A t \in Threads :
        /\ (pc[t] = "ool" /\ cc'[t].live) =>
             /\ cc'[t].ool_paths_ = cc[t].ool_paths_
             /\ cc'[t].ool_i # cc[t].ool_i =>
                  LET k == cc'[t].ool_i
                  IN  /\ k = cc[t].ool_i + 1
                      /\ cc'[t].ool_log = Append(cc[t].ool_log,
                                                 [path |-> k, at |-> cc[t].masm_pc])
                      /\ cc'[t].masm_pc > cc[t].masm_pc
                      /\ cc'[t].cip_map_[Len(cc'[t].cip_map_)].cip
                           = cc[t].ool_paths_[k].cip
        /\ cc'[t].live =>
             LET c == cc'[t]
             IN  /\ Len(c.ool_log) = c.ool_i
                 /\ c.ool_i <= Len(c.ool_paths_)
                 /\ c.ool_bound = 1 .. c.ool_i
                 /\ \A k \in DOMAIN c.ool_log :
                      /\ c.ool_log[k].path = k
                      /\ c.ool_log[k].at > LastOpcodeAt(c)
                 /\ pc'[t] = "decode" => c.ool_i = 0
                 /\ (TailBegun(t))' => c.ool_i = Len(c.ool_paths_)
                 /\ (pc'[t] \in {"thunks", "throwpaths", "link"} \/ c.fun # NoFn) =>
                      c.ool_i = Len(c.ool_paths_) ]_vars

(* Both out-of-line paths of a function were emitted, in order, and the    *)
(* first thunk has not been emitted yet.                                   *)
C17_Witness ==
  \E t \in Threads :
    /\ pc[t] = "thunks"
    /\ Len(cc[t].ool_paths_) = 2
    /\ cc[t].ool_log[2].path = 2
    /\ cc[t].ool_log[1].at < cc[t].ool_log[2].at
    /\ ~TailBegun(t)

(* C18: a step of the thunk loop takes the next backward-jump record,      *)
(* records the assembler's position as its timeout_offset, emits the call  *)
(* of throw_timeout there and appends a cip-map entry with the record's    *)
(* cip, and touches no other record; the thunks emitted so far are at      *)
(* distinct offsets, past the main body and every out-of-line path, and so *)
(* past their branches: every loop edge has a strictly positive disp32.    *)
C18_OneThunkPerBackwardJump ==
  [][ \A t \in Threads :
        /\ (pc[t] = "thunks" /\ cc'[t].live /\ cc'[t].bj_i # cc[t].bj_i) =>
             LET i == cc'[t].bj_i
                 old == cc[t].backward_jumps_
                 new == cc'[t].backward_jumps_
             IN  /\ i = cc[t].bj_i + 1
                 /\ Len(new) = Len(old)
                 /\ new[i] = [old[i] EXCEPT !.timeout_offset = cc[t].masm_pc]
                 /\ \A k \in DOMAIN old \ {i} : new[k] = old[k]
                 /\ cc'[t].masm_pc > cc[t].masm_pc
                 /\ "throw_timeout_" \in cc'[t].used
                 /\ cc'[t].cip_map_ =
                      Append(cc[t].cip_map_,
                             [pcoffs |-> cc'[t].masm_pc, cip |-> old[i].cip])
        /\ cc'[t].live =>
             LET c == cc'[t]
                 jumps == c.backward_jumps_
             IN  /\ c.bj_i <= Len(jumps)
                 /\ \A i \in 1 .. c.bj_i :
                      /\ jumps[i].timeout_offset > jumps[i].pc
                      /\ jumps[i].timeout_offset > LastOpcodeAt(c)
                      /\ \A k \in DOMAIN c.ool_log :
                           jumps[i].timeout_offset > c.ool_log[k].at
                      /\ \A k \in 1 .. i - 1 :
                           jumps[k].timeout_offset < jumps[i].timeout_offset
                 /\ c.bj_i > 0 => c.ool_i = Len(c.ool_paths_)
                 /\ c.fun # NoFn =>
                      /\ c.bj_i = Len(jumps)
                      /\ \A i \in DOMAIN c.fun.edges : c.fun.edges[i].disp32 > 0 ]_vars

(* The second of two thunks was emitted, after two out-of-line paths.      *)
C18_Witness ==
  \E t \in Threads :
    /\ pc[t] = "thunks"
    /\ cc[t].bj_i = 2
    /\ Len(cc[t].ool_log) = 2
    /\ cc[t].backward_jumps_[1].cip # cc[t].backward_jumps_[2].cip
    /\ cc[t].backward_jumps_[2].timeout_offset
         > cc[t].backward_jumps_[1].timeout_offset

-----------------------------------------------------------------------------
(* Properties of the jump map. *)

(* C19: when emit() reaches the link, and in a compiler that has made a    *)
(* function, a jump-map label that is not bound has no site referring to   *)
(* it: every branch of the function refers to a bound label.               *)
C19_UnboundLabelsUnreferenced ==
  \A t \in Threads :
    (cc[t].live /\ (pc[t] = "link" \/ cc[t].fun # NoFn)) =>
      \A j \in DOMAIN cc[t].jump_map_ :
        ~cc[t].jump_map_[j].bound => cc[t].jump_map_[j].sites = {}

(* At the link of a function with a forward jump: the label of its target  *)
(* is bound and referred to, the label of the ENDPROC that ends the        *)
(* function is neither.                                                    *)
C19_Witness ==
  \E t \in Threads :
    LET c == cc[t]
        end == FunctionEnd(c.pcode_start_)
    IN  /\ pc[t] = "link"
        /\ c.error_ = SP_ERROR_NONE
        /\ \E j \in DOMAIN c.jump_map_ :
             /\ c.jump_map_[j].bound
             /\ \E a \in c.jump_map_[j].sites : a < c.jump_map_[j].offset
        /\ ~c.jump_map_[end].bound
        /\ c.jump_map_[end].sites = {}

(* C20: whenever the decode loop has a cell before it, the index it would  *)
(* bind, the cell's distance from the start of the code segment, is at     *)
(* least 0 and below the size of the jump map, code length / cell size + 1,*)
(* whichever function is compiled.                                         *)
C20_JumpMapIndexInBounds ==
  \A t \in Threads :
    (pc[t] = "decode" /\ cc[t].live /\ more(cc[t])) =>
      /\ JumpMapIndex(cc[t]) >= 0
      /\ JumpMapIndex(cc[t]) < CodeLength \div CellSize + 1
      /\ JumpMapIndex(cc[t]) \in DOMAIN cc[t].jump_map_

(* The decode loop of the last function stands on the last cell of the     *)
(* code.                                                                   *)
C20_Witness ==
  \E t \in Threads :
    /\ pc[t] = "decode"
    /\ cc[t].live
    /\ cc[t].pcode_start_ > 0
    /\ cc[t].cip = Len(Code) - 1
    /\ ~AtFunctionBoundary(cc[t])

====
